---- MODULE Spec2Model ----
(***************************************************************************)
(* Model of the lead-intake chatbot of src/main.py: the in-memory session  *)
(* store, the /chat handler (one branch per dialogue step), the three      *)
(* validators and the two notification collaborators.                      *)
(*                                                                         *)
(* A Python str is a sequence of one-character strings.  A Python dict is  *)
(* a function whose DOMAIN is the set of keys present.  TLA+ strings are   *)
(* ASCII, so the en dash of the slot labels is written "-" and the bullet  *)
(* of when_text is written "*".                                            *)
(***************************************************************************)
EXTENDS Naturals, Sequences, FiniteSets, TLC

VARIABLES sessions, sheetCalls, whatsappCalls, msg, step, reply, handled

\* A text handed to the validation helpers, and what they returned.
VARIABLES probe, verdict

\* The two environment settings read at import, the HTTP requests made by
\* the collaborators, and whether the latest call of chat() raised.
VARIABLES GOOGLE_SHEET_WEBHOOK, WHATSAPP_RECIPIENTS_RAW, requests, error

chatVars == <<sessions, sheetCalls, whatsappCalls, msg, step, reply, handled>>

probeVars == <<probe, verdict>>

netVars == <<GOOGLE_SHEET_WEBHOOK, WHATSAPP_RECIPIENTS_RAW, requests, error>>

\* chat() is a plain def, which the framework runs on worker threads: heap
\* holds the session dict objects, stored maps a session id to the object
\* the module-level dict holds for it, and frame is each worker's call of
\* chat() in progress; begun counts the calls made for each session id.
VARIABLES heap, stored, frame, begun

raceVars == <<heap, stored, frame, begun>>

vars == <<chatVars, probeVars, netVars, raceVars>>

(***************************************************************************)
(* Bounds of the model.                                                    *)
(***************************************************************************)
MaxMsgs == 6

SessionIds == {"s1", "s2"}

(***************************************************************************)
(* Characters and the str methods the handler uses.                        *)
(***************************************************************************)
LowerChars == <<"a", "b", "c", "d", "e", "f", "g", "h", "i", "j", "k", "l", "m", "n", "o", "p", "q", "r", "s", "t", "u", "v", "w", "x", "y", "z">>

UpperChars == <<"A", "B", "C", "D", "E", "F", "G", "H", "I", "J", "K", "L", "M", "N", "O", "P", "Q", "R", "S", "T", "U", "V", "W", "X", "Y", "Z">>

Range(f) == {f[i] : i \in DOMAIN f}

LowerSet == Range(LowerChars)

UpperSet == Range(UpperChars)

IsLower(ch) == ch \in LowerSet

IsUpper(ch) == ch \in UpperSet

IsAlpha(ch) == IsLower(ch) \/ IsUpper(ch)

IsDigit(ch) == ch \in {"0", "1", "2", "3", "4", "5", "6", "7", "8", "9"}

IsSpace(ch) == ch \in {" ", "\t", "\n"}

IndexIn(ch, chars) == CHOOSE i \in DOMAIN chars : chars[i] = ch

ToUpper(ch) == IF IsLower(ch) THEN UpperChars[IndexIn(ch, LowerChars)] ELSE ch

ToLower(ch) == IF IsUpper(ch) THEN LowerChars[IndexIn(ch, UpperChars)] ELSE ch

RECURSIVE LStrip(_)
LStrip(t) == IF t # <<>> /\ IsSpace(Head(t)) THEN LStrip(Tail(t)) ELSE t

RECURSIVE RStrip(_)
RStrip(t) ==
    IF t # <<>> /\ IsSpace(t[Len(t)]) THEN RStrip(SubSeq(t, 1, Len(t) - 1)) ELSE t

\* str.strip(): leading and trailing whitespace removed.
Strip(t) == RStrip(LStrip(t))

\* str.title(): a cased character is upper-cased when the character before
\* it is uncased (or it is the first), and lower-cased otherwise.
RECURSIVE TitleFrom(_, _)
TitleFrom(t, prevCased) ==
    IF t = <<>> THEN <<>>
    ELSE LET ch == Head(t)
         IN  IF IsAlpha(ch)
             THEN <<IF prevCased THEN ToLower(ch) ELSE ToUpper(ch)>>
                      \o TitleFrom(Tail(t), TRUE)
             ELSE <<ch>> \o TitleFrom(Tail(t), FALSE)

Title(t) == TitleFrom(t, FALSE)

(***************************************************************************)
(* Validation helpers.                                                     *)
(***************************************************************************)
is_valid_name(t) ==
    LET text == Strip(t)
    IN  IF Len(text) < 2 THEN FALSE
        ELSE \E i \in 1..Len(text) : IsAlpha(text[i])

\* Fault variant of is_valid_location: the length is taken before trimming.
is_valid_location_UntrimmedLength(t) ==
    IF Len(t) < 2 THEN FALSE
    ELSE \E i \in 1..Len(t) : IsAlpha(t[i])

is_valid_location(t) ==
    LET text == Strip(t)
    IN  IF Len(text) < 2 THEN FALSE
        ELSE \E i \in 1..Len(text) : IsAlpha(text[i])

\* Fault variant of is_valid_date_text: the digit test is left out.
is_valid_date_text_LengthOnly(t) ==
    LET text == Strip(t)
    IN  IF Len(text) < 5 THEN FALSE ELSE TRUE

is_valid_date_text(t) ==
    LET text == Strip(t)
    IN  IF Len(text) < 5 THEN FALSE
        ELSE \E i \in 1..Len(text) : IsDigit(text[i])

(***************************************************************************)
(* dict operations.                                                        *)
(***************************************************************************)
\* d[k] = v
DictSet(d, k, v) == [x \in DOMAIN d \cup {k} |-> IF x = k THEN v ELSE d[x]]

\* d.get(k, default)
DictGet(d, k, default) == IF k \in DOMAIN d THEN d[k] ELSE default

EmptyDict == [x \in {} |-> <<>>]

\* The dict literal {"step": "ask_name"}, built anew by every call.
NewSession == [x \in {"step"} |-> "ask_name"]

(***************************************************************************)
(* Static lookup tables of the handler.                                    *)
(***************************************************************************)
slots ==
    (<<"1">> :> <<"1", "1", ":", "0", "0", " ", "A", "M", " ", "-", " ", "1", "2", ":", "0", "0", " ", "P", "M">>) @@
    (<<"2">> :> <<"1", "2", ":", "0", "0", " ", "P", "M", " ", "-", " ", "1", ":", "0", "0", " ", "P", "M">>) @@
    (<<"3">> :> <<"1", ":", "0", "0", " ", "P", "M", " ", "-", " ", "2", ":", "0", "0", " ", "P", "M">>) @@
    (<<"4">> :> <<"2", ":", "0", "0", " ", "P", "M", " ", "-", " ", "3", ":", "0", "0", " ", "P", "M">>) @@
    (<<"5">> :> <<"3", ":", "0", "0", " ", "P", "M", " ", "-", " ", "4", ":", "0", "0", " ", "P", "M">>) @@
    (<<"6">> :> <<"4", ":", "0", "0", " ", "P", "M", " ", "-", " ", "5", ":", "0", "0", " ", "P", "M">>) @@
    (<<"7">> :> <<"5", ":", "0", "0", " ", "P", "M", " ", "-", " ", "6", ":", "0", "0", " ", "P", "M">>) @@
    (<<"8">> :> <<"6", ":", "0", "0", " ", "P", "M", " ", "-", " ", "7", ":", "0", "0", " ", "P", "M">>) @@
    (<<"9">> :> <<"7", ":", "0", "0", " ", "P", "M", " ", "-", " ", "8", ":", "0", "0", " ", "P", "M">>)

\* Fault variant of mapping: the labels of "3" and "4" exchanged.
mapping_Swapped ==
    (<<"1">> :> <<"W", "e", "d", "d", "i", "n", "g">>) @@
    (<<"2">> :> <<"R", "e", "c", "e", "p", "t", "i", "o", "n">>) @@
    (<<"3">> :> <<"S", "a", "n", "g", "e", "e", "t">>) @@
    (<<"4">> :> <<"M", "e", "h", "e", "n", "d", "i">>) @@
    (<<"5">> :> <<"E", "n", "g", "a", "g", "e", "m", "e", "n", "t">>)

mapping ==
    (<<"1">> :> <<"W", "e", "d", "d", "i", "n", "g">>) @@
    (<<"2">> :> <<"R", "e", "c", "e", "p", "t", "i", "o", "n">>) @@
    (<<"3">> :> <<"M", "e", "h", "e", "n", "d", "i">>) @@
    (<<"4">> :> <<"S", "a", "n", "g", "e", "e", "t">>) @@
    (<<"5">> :> <<"E", "n", "g", "a", "g", "e", "m", "e", "n", "t">>)

\* The list ["1", "2", "3", "4", "5", "6"] of the event menu.
EventOptions == {<<"1">>, <<"2">>, <<"3">>, <<"4">>, <<"5">>, <<"6">>}

(***************************************************************************)
(* Replies.  A reply is the template the handler fills in (named after the *)
(* prompt it shows) with the values interpolated into it.                  *)
(***************************************************************************)
Reply(tpl, args) == [tpl |-> tpl, args |-> args]

NoCalls == <<>>

\* What one branch of the handler produces: the session dict after its
\* assignments, the reply, and the arguments of the calls it made to
\* log_booking_to_sheet and send_whatsapp_notifications, in order.
Outcome(s, r, sheet, whatsapp) ==
    [s |-> s, reply |-> r, sheet |-> sheet, whatsapp |-> whatsapp]

CallArgs(name, event_type, location, when_text) ==
    [name |-> name, event_type |-> event_type, location |-> location,
     when_text |-> when_text]

(***************************************************************************)
(* The branches of chat(), one per value of step.                          *)
(***************************************************************************)
\* Fault variant of AskName: the step after the name is the time slot menu.
AskName_SkipsDate(s, text) ==
    IF ~is_valid_name(text)
    THEN Outcome(s, Reply("name_prompt", <<>>), NoCalls, NoCalls)
    ELSE Outcome(DictSet(DictSet(s, "name", text), "step", "ask_time_slot"),
                 Reply("date_prompt", <<text>>), NoCalls, NoCalls)

\* STEP 1 - Ask name
AskName(s, text) ==
    IF ~is_valid_name(text)
    THEN Outcome(s, Reply("name_prompt", <<>>), NoCalls, NoCalls)
    ELSE Outcome(DictSet(DictSet(s, "name", text), "step", "ask_date"),
                 Reply("date_prompt", <<text>>), NoCalls, NoCalls)

\* Fault variant of AskDate: an accepted date is stored but the step stays.
AskDate_StaysOnAccept(s, text) ==
    IF ~is_valid_date_text(text)
    THEN Outcome(s, Reply("date_retry", <<>>), NoCalls, NoCalls)
    ELSE Outcome(DictSet(s, "date", text),
                 Reply("time_slot_menu", <<>>), NoCalls, NoCalls)

\* STEP 2 - Ask date
AskDate(s, text) ==
    IF ~is_valid_date_text(text)
    THEN Outcome(s, Reply("date_retry", <<>>), NoCalls, NoCalls)
    ELSE Outcome(DictSet(DictSet(s, "date", text), "step", "ask_time_slot"),
                 Reply("time_slot_menu", <<>>), NoCalls, NoCalls)

\* Fault variant of AskTimeSlot: the text is stored before it is looked up.
AskTimeSlot_StoresBeforeCheck(s, text) ==
    LET s0 == DictSet(s, "time_slot", text)
    IN  IF text \notin DOMAIN slots
        THEN Outcome(s0, Reply("time_slot_retry", <<>>), NoCalls, NoCalls)
        ELSE Outcome(DictSet(DictSet(s0, "time_slot", slots[text]), "step", "ask_event_type"),
                     Reply("event_menu", <<>>), NoCalls, NoCalls)

\* Fault variant of AskTimeSlot: the option number is stored, not its window.
AskTimeSlot_StoresKey(s, text) ==
    IF text \notin DOMAIN slots
    THEN Outcome(s, Reply("time_slot_retry", <<>>), NoCalls, NoCalls)
    ELSE Outcome(DictSet(DictSet(s, "time_slot", text), "step", "ask_event_type"),
                 Reply("event_menu", <<>>), NoCalls, NoCalls)

\* STEP 3 - Ask time slot
AskTimeSlot(s, text) ==
    IF text \notin DOMAIN slots
    THEN Outcome(s, Reply("time_slot_retry", <<>>), NoCalls, NoCalls)
    ELSE Outcome(DictSet(DictSet(s, "time_slot", slots[text]), "step", "ask_event_type"),
                 Reply("event_menu", <<>>), NoCalls, NoCalls)

\* Fault variant of AskEventType: "6" sets a step name no branch tests for.
AskEventType_MisspeltStep(s, text) ==
    IF text \notin EventOptions
    THEN Outcome(s, Reply("event_menu_retry", <<>>), NoCalls, NoCalls)
    ELSE IF text = <<"6">>
         THEN Outcome(DictSet(s, "step", "ask_other"),
                      Reply("other_event_prompt", <<>>), NoCalls, NoCalls)
         ELSE LET s1 == DictSet(s, "event_type", mapping[text])
              IN  Outcome(DictSet(s1, "step", "ask_location"),
                          Reply("location_prompt", <<s1["event_type"]>>),
                          NoCalls, NoCalls)

\* Fault variant of AskEventType: "6" goes on to the location prompt.
AskEventType_OtherSkipsPrompt(s, text) ==
    IF text \notin EventOptions
    THEN Outcome(s, Reply("event_menu_retry", <<>>), NoCalls, NoCalls)
    ELSE IF text = <<"6">>
         THEN Outcome(DictSet(s, "step", "ask_location"),
                      Reply("other_event_prompt", <<>>), NoCalls, NoCalls)
         ELSE LET s1 == DictSet(s, "event_type", mapping[text])
              IN  Outcome(DictSet(s1, "step", "ask_location"),
                          Reply("location_prompt", <<s1["event_type"]>>),
                          NoCalls, NoCalls)

\* STEP 4 - Event type (1-6)
AskEventType(s, text) ==
    IF text \notin EventOptions
    THEN Outcome(s, Reply("event_menu_retry", <<>>), NoCalls, NoCalls)
    ELSE IF text = <<"6">>
         THEN Outcome(DictSet(s, "step", "ask_other_event"),
                      Reply("other_event_prompt", <<>>), NoCalls, NoCalls)
         ELSE LET s1 == DictSet(s, "event_type", mapping[text])
              IN  Outcome(DictSet(s1, "step", "ask_location"),
                          Reply("location_prompt", <<s1["event_type"]>>),
                          NoCalls, NoCalls)

\* Fault variant of AskOtherEvent: the custom event is written to "name" too.
AskOtherEvent_WritesName(s, text) ==
    IF ~is_valid_name(text)
    THEN Outcome(s, Reply("other_event_retry", <<>>), NoCalls, NoCalls)
    ELSE LET s1 == DictSet(DictSet(s, "name", Title(Strip(text))),
                           "event_type", Title(Strip(text)))
         IN  Outcome(DictSet(s1, "step", "ask_location"),
                     Reply("location_prompt_custom", <<s1["event_type"]>>),
                     NoCalls, NoCalls)

\* Fault variant of AskOtherEvent: the custom event is stored as typed.
AskOtherEvent_NoTitle(s, text) ==
    IF ~is_valid_name(text)
    THEN Outcome(s, Reply("other_event_retry", <<>>), NoCalls, NoCalls)
    ELSE LET s1 == DictSet(s, "event_type", Strip(text))
         IN  Outcome(DictSet(s1, "step", "ask_location"),
                     Reply("location_prompt_custom", <<s1["event_type"]>>),
                     NoCalls, NoCalls)

\* Fault variant of AskOtherEvent: the custom event leads back to the menu.
AskOtherEvent_BackToMenu(s, text) ==
    IF ~is_valid_name(text)
    THEN Outcome(s, Reply("other_event_retry", <<>>), NoCalls, NoCalls)
    ELSE LET s1 == DictSet(s, "event_type", Title(Strip(text)))
         IN  Outcome(DictSet(s1, "step", "ask_event_type"),
                     Reply("location_prompt_custom", <<s1["event_type"]>>),
                     NoCalls, NoCalls)

\* STEP 4B - Custom event name
AskOtherEvent(s, text) ==
    IF ~is_valid_name(text)
    THEN Outcome(s, Reply("other_event_retry", <<>>), NoCalls, NoCalls)
    ELSE LET s1 == DictSet(s, "event_type", Title(Strip(text)))
         IN  Outcome(DictSet(s1, "step", "ask_location"),
                     Reply("location_prompt_custom", <<s1["event_type"]>>),
                     NoCalls, NoCalls)

\* Fault variant of WhenText: slot and date exchanged.
WhenText_SlotFirst(date_text, time_slot) == time_slot \o <<" ", "*", " ">> \o date_text

\* f"{date_text} * {time_slot}"
WhenText(date_text, time_slot) == date_text \o <<" ", "*", " ">> \o time_slot

\* Fault variant of AskLocation: the WhatsApp alert is left out.
AskLocation_NoWhatsapp(s, text) ==
    IF ~is_valid_location(text)
    THEN Outcome(s, Reply("location_retry", <<>>), NoCalls, NoCalls)
    ELSE LET s1         == DictSet(DictSet(s, "location", text), "step", "done")
             name       == DictGet(s1, "name", <<>>)
             event_type == DictGet(s1, "event_type", <<>>)
             location   == DictGet(s1, "location", <<>>)
             date_text  == DictGet(s1, "date", <<>>)
             time_slot  == DictGet(s1, "time_slot", <<>>)
             when_text  == WhenText(date_text, time_slot)
             args       == CallArgs(name, event_type, location, when_text)
         IN  Outcome(s1,
                     Reply("confirmation", <<name, event_type, location, when_text>>),
                     <<args>>, NoCalls)

\* STEP 4C - Ask location, then finish
AskLocation(s, text) ==
    IF ~is_valid_location(text)
    THEN Outcome(s, Reply("location_retry", <<>>), NoCalls, NoCalls)
    ELSE LET s1         == DictSet(DictSet(s, "location", text), "step", "done")
             name       == DictGet(s1, "name", <<>>)
             event_type == DictGet(s1, "event_type", <<>>)
             location   == DictGet(s1, "location", <<>>)
             date_text  == DictGet(s1, "date", <<>>)
             time_slot  == DictGet(s1, "time_slot", <<>>)
             when_text  == WhenText(date_text, time_slot)
             args       == CallArgs(name, event_type, location, when_text)
         IN  Outcome(s1,
                     Reply("confirmation", <<name, event_type, location, when_text>>),
                     <<args>>, <<args>>)

\* Fault variant of AlreadyComplete: the booking is sent out again.
AlreadyComplete_Renotify(s, text) ==
    LET args == CallArgs(DictGet(s, "name", <<>>), DictGet(s, "event_type", <<>>),
                         DictGet(s, "location", <<>>),
                         WhenText(DictGet(s, "date", <<>>), DictGet(s, "time_slot", <<>>)))
    IN  Outcome(s, Reply("already_captured", <<>>), <<args>>, <<args>>)

\* Fault variant of AlreadyComplete: the conversation starts over.
AlreadyComplete_Restart(s, text) ==
    Outcome(DictSet(s, "step", "ask_name"), Reply("already_captured", <<>>),
            NoCalls, NoCalls)

\* STEP 5 - Session already complete (the final else of the chain)
AlreadyComplete(s, text) ==
    Outcome(s, Reply("already_captured", <<>>), NoCalls, NoCalls)

\* The if/elif chain over step.
Dispatch(s, text) ==
    LET st == s["step"]
    IN  IF st = "ask_name" THEN AskName(s, text)
        ELSE IF st = "ask_date" THEN AskDate(s, text)
        ELSE IF st = "ask_time_slot" THEN AskTimeSlot(s, text)
        ELSE IF st = "ask_event_type" THEN AskEventType(s, text)
        ELSE IF st = "ask_other_event" THEN AskOtherEvent(s, text)
        ELSE IF st = "ask_location" THEN AskLocation(s, text)
        ELSE AlreadyComplete(s, text)

(***************************************************************************)
(* Messages the clients send.  Texts covers, for every step, an accepted   *)
(* and a rejected input, with surrounding whitespace and mixed case.       *)
(***************************************************************************)
Texts ==
    { <<" ">>,
      <<" ", "a", "B", " ">>,
      <<"b", "a", "b", "y", " ", "s", "h", "o", "w", "e", "r">>,
      <<"2", "5", "/", "1", "2">>,
      <<" ", "2", " ">>,
      <<"0">>, <<"1">>, <<"3">>, <<"4">>, <<"5">>, <<"6">>, <<"9">> }

Message(id, t) == [session_id |-> id, text |-> t]

NoMessage == [session_id |-> "", text |-> <<>>]

Tag(id, calls) == [i \in DOMAIN calls |-> [sid |-> id, args |-> calls[i]]]

(***************************************************************************)
(* State machine.  sessions is the module-level dict; sheetCalls and       *)
(* whatsappCalls record every invocation of the two collaborators (with    *)
(* the session on whose behalf it was made); msg, step and reply are the   *)
(* argument, the local and the result of the latest call of chat();        *)
(* handled counts the calls of chat().                                     *)
(***************************************************************************)
NoVerdict == [returned |-> FALSE, name |-> FALSE, location |-> FALSE, date |-> FALSE]

\* No validation helper is being exercised on its own.
ProbeIdle == probe = <<>> /\ verdict = NoVerdict

ChatInit ==
    /\ sessions = EmptyDict
    /\ sheetCalls = <<>>
    /\ whatsappCalls = <<>>
    /\ msg = NoMessage
    /\ step = "none"
    /\ reply = Reply("none", <<>>)
    /\ handled = 0

\* Neither collaborator is configured, so neither makes a request.
NetIdle ==
    /\ GOOGLE_SHEET_WEBHOOK = <<>>
    /\ WHATSAPP_RECIPIENTS_RAW = <<>>
    /\ requests = <<>>
    /\ error = FALSE

\* The worker threads, in the order in which the pool hands out calls.
Handlers == {1, 2}

\* A worker with no call of chat() in progress.
IdleFrame ==
    [pc |-> "idle", session_id |-> "", text |-> <<>>, s |-> 0, step |-> "",
     next |-> "", sheet |-> FALSE, whatsapp |-> FALSE, reply |-> Reply("", <<>>)]

RaceIdle ==
    /\ heap = <<>>
    /\ stored = EmptyDict
    /\ frame = [h \in Handlers |-> IdleFrame]
    /\ begun = [id \in SessionIds |-> 0]

Init ==
    /\ ChatInit
    /\ ProbeIdle
    /\ NetIdle
    /\ RaceIdle

\* Fault variant of Chat: the session is written back only when the step
\* has changed.
Chat_StoresOnAdvance(id, raw) ==
    /\ handled < MaxMsgs
    /\ LET s    == DictGet(sessions, id, NewSession)
           text == Strip(raw)
           out  == Dispatch(s, text)
       IN  /\ msg' = Message(id, raw)
           /\ step' = s["step"]
           /\ sheetCalls' = sheetCalls \o Tag(id, out.sheet)
           /\ whatsappCalls' = whatsappCalls \o Tag(id, out.whatsapp)
           /\ sessions' = IF out.s["step"] = s["step"] THEN sessions
                          ELSE DictSet(sessions, id, out.s)
           /\ reply' = out.reply
    /\ handled' = handled + 1
    /\ UNCHANGED <<probeVars, netVars, raceVars>>

\* POST /chat, the messages of a session handled one at a time.
Chat(id, raw) ==
    /\ handled < MaxMsgs
    /\ LET s    == DictGet(sessions, id, NewSession)
           text == Strip(raw)
           out  == Dispatch(s, text)
       IN  /\ msg' = Message(id, raw)
           /\ step' = s["step"]
           /\ sheetCalls' = sheetCalls \o Tag(id, out.sheet)
           /\ whatsappCalls' = whatsappCalls \o Tag(id, out.whatsapp)
           /\ sessions' = DictSet(sessions, id, out.s)
           /\ reply' = out.reply
    /\ handled' = handled + 1
    /\ UNCHANGED <<probeVars, netVars, raceVars>>

Next == \E id \in SessionIds, raw \in Texts : Chat(id, raw)

Spec == Init /\ [][Next]_vars

(***************************************************************************)
(* Vocabulary of the properties.                                           *)
(***************************************************************************)
Steps ==
    {"ask_name", "ask_event_type", "ask_other_event", "ask_location",
     "ask_date", "ask_time_slot", "done"}

Fields == {"name", "event_type", "location", "date", "time_slot"}

\* The session a message for id is processed against.
SessionOf(store, id) == DictGet(store, id, NewSession)

\* How often a collaborator was invoked on behalf of session id.
Invocations(calls, id) == Cardinality({i \in DOMAIN calls : calls[i].sid = id})

\* In a step of the state machine: the message handled is for session id.
Handles(id) == msg'.session_id = id

\* In a step of the state machine: the trimmed text of the message handled.
Trimmed == Strip(msg'.text)

NoNewCalls == sheetCalls' = sheetCalls /\ whatsappCalls' = whatsappCalls

(***************************************************************************)
(* C1: each collaborator is invoked at most once per session, and the      *)
(* invocations happen exactly in the transition that sets the session's    *)
(* step to done.                                                           *)
(***************************************************************************)
EntersDone(id) ==
    /\ SessionOf(sessions, id)["step"] # "done"
    /\ SessionOf(sessions', id)["step"] = "done"

C1_NotifiedOnceOnEnteringDone ==
    [][\A id \in SessionIds :
          /\ Invocations(sheetCalls', id) <= 1
          /\ Invocations(whatsappCalls', id) <= 1
          /\ (Invocations(sheetCalls', id) # Invocations(sheetCalls, id))
                <=> EntersDone(id)
          /\ (Invocations(whatsappCalls', id) # Invocations(whatsappCalls, id))
                <=> EntersDone(id)]_vars

\* A session was notified once and then sent a further message.
C1_Witness ==
    \E id \in DOMAIN sessions :
        /\ msg.session_id = id
        /\ step = "done"
        /\ Invocations(sheetCalls, id) = 1
        /\ Invocations(whatsappCalls, id) = 1

(***************************************************************************)
(* C2: at done every message gets the fixed "already captured" reply,      *)
(* changes neither the step nor a field, and invokes no collaborator; no   *)
(* session ever leaves done.                                               *)
(***************************************************************************)
C2_DoneIsAbsorbing ==
    [][\A id \in SessionIds :
          SessionOf(sessions, id)["step"] = "done" =>
              /\ sessions'[id] = sessions[id]
              /\ Handles(id) =>
                    /\ reply' = Reply("already_captured", <<>>)
                    /\ NoNewCalls]_vars

\* A message with a text that every collecting step would accept, sent at done.
C2_Witness ==
    \E id \in DOMAIN sessions :
        /\ msg = Message(id, <<" ", "a", "B", " ">>)
        /\ step = "done"
        /\ reply = Reply("already_captured", <<>>)
        /\ sessions[id]["step"] = "done"

(***************************************************************************)
(* C3: the step of every stored session is one of the enumerated states.   *)
(***************************************************************************)
C3_StepIsEnumerated ==
    \A id \in DOMAIN sessions :
        /\ "step" \in DOMAIN sessions[id]
        /\ sessions[id]["step"] \in Steps

\* Both sessions are stored, one complete and one still collecting.
C3_Witness ==
    /\ DOMAIN sessions = SessionIds
    /\ \E id \in SessionIds : sessions[id]["step"] = "done"
    /\ \E id \in SessionIds : sessions[id]["step"] = "ask_date"

(***************************************************************************)
(* C4: a field that is set is never cleared and never changes value.       *)
(***************************************************************************)
C4_FieldsWrittenOnce ==
    [][\A id \in DOMAIN sessions :
          /\ id \in DOMAIN sessions'
          /\ \A f \in Fields \cap DOMAIN sessions[id] :
                /\ f \in DOMAIN sessions'[id]
                /\ sessions'[id][f] = sessions[id][f]]_vars

\* The last field of a session has just been written on the custom-event
\* path, after the four others.
C4_Witness ==
    \E id \in DOMAIN sessions :
        /\ msg.session_id = id
        /\ step = "ask_location"
        /\ DOMAIN sessions[id] = Fields \cup {"step"}
        /\ sessions[id]["event_type"] \notin {mapping[k] : k \in DOMAIN mapping}

(***************************************************************************)
(* C5: at every non-terminal step a message that the step's validator or   *)
(* option set rejects leaves the step and the fields unchanged, makes no   *)
(* collaborator call and returns the step's re-ask prompt.                 *)
(***************************************************************************)
Digits1to6 == {<<"1">>, <<"2">>, <<"3">>, <<"4">>, <<"5">>, <<"6">>}

Digits1to9 == Digits1to6 \cup {<<"7">>, <<"8">>, <<"9">>}

Rejects(st, t) ==
    \/ st = "ask_name" /\ ~is_valid_name(t)
    \/ st = "ask_event_type" /\ t \notin Digits1to6
    \/ st = "ask_other_event" /\ ~is_valid_name(t)
    \/ st = "ask_location" /\ ~is_valid_location(t)
    \/ st = "ask_date" /\ ~is_valid_date_text(t)
    \/ st = "ask_time_slot" /\ t \notin Digits1to9

ReaskPrompt(st) ==
    IF st = "ask_name" THEN Reply("name_prompt", <<>>)
    ELSE IF st = "ask_event_type" THEN Reply("event_menu_retry", <<>>)
    ELSE IF st = "ask_other_event" THEN Reply("other_event_retry", <<>>)
    ELSE IF st = "ask_location" THEN Reply("location_retry", <<>>)
    ELSE IF st = "ask_date" THEN Reply("date_retry", <<>>)
    ELSE Reply("time_slot_retry", <<>>)

C5_InvalidInputReasks ==
    [][\A id \in SessionIds :
          LET s == SessionOf(sessions, id)
          IN  Handles(id) /\ Rejects(s["step"], Trimmed) =>
                  /\ sessions'[id] = s
                  /\ NoNewCalls
                  /\ reply' = ReaskPrompt(s["step"])]_vars

\* Scenario 4: "0" at ask_time_slot.
C5_Witness ==
    \E id \in DOMAIN sessions :
        /\ msg = Message(id, <<"0">>)
        /\ step = "ask_time_slot"
        /\ sessions[id]["step"] = "ask_time_slot"
        /\ reply = Reply("time_slot_retry", <<>>)

(***************************************************************************)
(* C6: the fields present in a session are a function of its step; a       *)
(* transition that leaves a collecting step for the next field's step has  *)
(* stored the field of the step it leaves (the move from the event menu to *)
(* the custom-event prompt stays within the collection of the event type); *)
(* a session at done has all five fields.                                  *)
(***************************************************************************)
CollectedAt(st) ==
    IF st = "ask_name" THEN "name"
    ELSE IF st = "ask_date" THEN "date"
    ELSE IF st = "ask_time_slot" THEN "time_slot"
    ELSE IF st \in {"ask_event_type", "ask_other_event"} THEN "event_type"
    ELSE "location"

FieldsOf(s) == DOMAIN s \ {"step"}

\* The fields every session at a step holds.
FieldsAt(st) ==
    IF st = "ask_name" THEN {}
    ELSE IF st = "ask_date" THEN {"name"}
    ELSE IF st = "ask_time_slot" THEN {"name", "date"}
    ELSE IF st \in {"ask_event_type", "ask_other_event"}
         THEN {"name", "date", "time_slot"}
    ELSE IF st = "ask_location" THEN {"name", "date", "time_slot", "event_type"}
    ELSE Fields

C6_StepDeterminesFields ==
    /\ [](\A a, b \in DOMAIN sessions :
             sessions[a]["step"] = sessions[b]["step"] =>
                 FieldsOf(sessions[a]) = FieldsOf(sessions[b]))
    /\ [](\A id \in DOMAIN sessions :
             FieldsOf(sessions[id]) = FieldsAt(sessions[id]["step"]))
    /\ [][\A id \in SessionIds :
             LET before == SessionOf(sessions, id)["step"]
                 after  == SessionOf(sessions', id)["step"]
             IN  before # after /\ after # "ask_other_event" =>
                     CollectedAt(before) \in DOMAIN sessions'[id]]_vars

\* A session has rejoined the main sequence at ask_location from the
\* custom-event detour while the other session is at the event menu.
C6_Witness ==
    \E a, b \in DOMAIN sessions :
        /\ msg.session_id = a
        /\ step = "ask_other_event"
        /\ sessions[a]["step"] = "ask_location"
        /\ FieldsOf(sessions[a]) = {"name", "date", "time_slot", "event_type"}
        /\ sessions[b]["step"] = "ask_date"

(***************************************************************************)
(* C7 as stated: at ask_name a text that passes is_valid_name stores name  *)
(* = the trimmed text, advances to ask_event_type and is answered with the *)
(* event-type menu.                                                        *)
(***************************************************************************)
IsEventMenu(r) == r.tpl \in {"event_menu", "event_menu_retry"}

C7_NameThenEventMenu ==
    [][\A id \in SessionIds :
          LET s == SessionOf(sessions, id)
          IN  Handles(id) /\ s["step"] = "ask_name" /\ is_valid_name(Trimmed) =>
                  /\ sessions'[id] =
                        DictSet(DictSet(s, "name", Trimmed), "step", "ask_event_type")
                  /\ IsEventMenu(reply')]_vars

(***************************************************************************)
(* C7 amended: at ask_name a text that passes is_valid_name stores name =  *)
(* the trimmed text, advances to ask_date and is answered with the date    *)
(* prompt addressed to that name.                                          *)
(***************************************************************************)
C7_NameThenDatePrompt ==
    [][\A id \in SessionIds :
          LET s == SessionOf(sessions, id)
          IN  Handles(id) /\ s["step"] = "ask_name" /\ is_valid_name(Trimmed) =>
                  /\ sessions'[id] =
                        DictSet(DictSet(s, "name", Trimmed), "step", "ask_date")
                  /\ reply' = Reply("date_prompt", <<Trimmed>>)
                  /\ NoNewCalls]_vars

\* " aB " at ask_name: the name stored is "aB".
C7_Witness ==
    \E id \in DOMAIN sessions :
        /\ msg = Message(id, <<" ", "a", "B", " ">>)
        /\ step = "ask_name"
        /\ sessions[id] = [name |-> <<"a", "B">>, step |-> "ask_date"]

(***************************************************************************)
(* C8: at ask_event_type, "1".."5" store the fixed label and advance to    *)
(* ask_location; "6" advances to ask_other_event and stores no event type; *)
(* every other input is rejected.                                          *)
(***************************************************************************)
C8_Labels ==
    (<<"1">> :> <<"W", "e", "d", "d", "i", "n", "g">>) @@
    (<<"2">> :> <<"R", "e", "c", "e", "p", "t", "i", "o", "n">>) @@
    (<<"3">> :> <<"M", "e", "h", "e", "n", "d", "i">>) @@
    (<<"4">> :> <<"S", "a", "n", "g", "e", "e", "t">>) @@
    (<<"5">> :> <<"E", "n", "g", "a", "g", "e", "m", "e", "n", "t">>)

C8_EventMenu ==
    [][\A id \in SessionIds :
          LET s == SessionOf(sessions, id)
              t == Trimmed
          IN  Handles(id) /\ s["step"] = "ask_event_type" =>
                  IF t \in DOMAIN C8_Labels
                  THEN sessions'[id] =
                          DictSet(DictSet(s, "event_type", C8_Labels[t]),
                                  "step", "ask_location")
                  ELSE IF t = <<"6">>
                  THEN /\ sessions'[id] = DictSet(s, "step", "ask_other_event")
                       /\ "event_type" \notin DOMAIN sessions'[id]
                  ELSE /\ sessions'[id] = s
                       /\ reply' = Reply("event_menu_retry", <<>>)]_vars

\* Scenario 2: "2" (here with surrounding blanks) at ask_event_type.
C8_Witness ==
    \E id \in DOMAIN sessions :
        /\ msg = Message(id, <<" ", "2", " ">>)
        /\ step = "ask_event_type"
        /\ sessions[id]["step"] = "ask_location"
        /\ sessions[id]["event_type"] = <<"R", "e", "c", "e", "p", "t", "i", "o", "n">>

(***************************************************************************)
(* C9: at ask_other_event a text that passes is_valid_name stores          *)
(* event_type = the trimmed text in title case and advances to             *)
(* ask_location.                                                           *)
(***************************************************************************)
\* Every letter is upper case exactly when no letter precedes it directly.
IsTitleCased(t) ==
    \A i \in 1..Len(t) :
        IsAlpha(t[i]) =>
            (IsUpper(t[i]) <=> (i = 1 \/ ~IsAlpha(t[i - 1])))

\* Equal up to the case of the letters.
SameLetters(t, u) ==
    /\ Len(t) = Len(u)
    /\ \A i \in 1..Len(t) : ToLower(t[i]) = ToLower(u[i])

C9_CustomEventTitleCased ==
    [][\A id \in SessionIds :
          LET s == SessionOf(sessions, id)
          IN  Handles(id) /\ s["step"] = "ask_other_event" /\ is_valid_name(Trimmed) =>
                  /\ sessions'[id] =
                        DictSet(DictSet(s, "event_type", Title(Trimmed)),
                                "step", "ask_location")
                  /\ IsTitleCased(sessions'[id]["event_type"])
                  /\ SameLetters(sessions'[id]["event_type"], Trimmed)]_vars

\* Scenario 3: "baby shower" at ask_other_event is stored as "Baby Shower".
C9_Witness ==
    \E id \in DOMAIN sessions :
        /\ msg = Message(id, <<"b", "a", "b", "y", " ", "s", "h", "o", "w", "e", "r">>)
        /\ step = "ask_other_event"
        /\ sessions[id]["step"] = "ask_location"
        /\ sessions[id]["event_type"] =
              <<"B", "a", "b", "y", " ", "S", "h", "o", "w", "e", "r">>

(***************************************************************************)
(* C10 as stated: at ask_location a text that passes is_valid_location     *)
(* stores location = the trimmed text and advances to ask_date, and the    *)
(* transition invokes no notification collaborator.                        *)
(***************************************************************************)
C10_LocationThenDate ==
    [][\A id \in SessionIds :
          LET s == SessionOf(sessions, id)
          IN  Handles(id) /\ s["step"] = "ask_location" /\ is_valid_location(Trimmed) =>
                  /\ sessions'[id] =
                        DictSet(DictSet(s, "location", Trimmed), "step", "ask_date")
                  /\ NoNewCalls]_vars

(***************************************************************************)
(* C10 amended: at ask_location a text that passes is_valid_location       *)
(* stores location = the trimmed text and advances to done, and the        *)
(* transition invokes each of the two notification collaborators once.     *)
(***************************************************************************)
C10_LocationThenDone ==
    [][\A id \in SessionIds :
          LET s == SessionOf(sessions, id)
          IN  Handles(id) /\ s["step"] = "ask_location" /\ is_valid_location(Trimmed) =>
                  /\ sessions'[id] =
                        DictSet(DictSet(s, "location", Trimmed), "step", "done")
                  /\ Len(sheetCalls') = Len(sheetCalls) + 1
                  /\ Len(whatsappCalls') = Len(whatsappCalls) + 1
                  /\ SubSeq(sheetCalls', 1, Len(sheetCalls)) = sheetCalls
                  /\ SubSeq(whatsappCalls', 1, Len(whatsappCalls)) = whatsappCalls
                  /\ sheetCalls'[Len(sheetCalls')].sid = id
                  /\ whatsappCalls'[Len(whatsappCalls')].sid = id]_vars

\* "baby shower" at ask_location completes the session.
C10_Witness ==
    \E id \in DOMAIN sessions :
        /\ msg = Message(id, <<"b", "a", "b", "y", " ", "s", "h", "o", "w", "e", "r">>)
        /\ step = "ask_location"
        /\ sessions[id]["step"] = "done"
        /\ sessions[id]["location"] =
              <<"b", "a", "b", "y", " ", "s", "h", "o", "w", "e", "r">>
        /\ Len(sheetCalls) = 1
        /\ Len(whatsappCalls) = 1

(***************************************************************************)
(* C11: at ask_date a message is accepted iff its trimmed text has at      *)
(* least 5 characters and contains a digit; an accepted text is stored as  *)
(* date and the session advances to ask_time_slot; any other text gets the *)
(* date prompt again.                                                      *)
(***************************************************************************)
C11_HasDigit(t) ==
    \E i \in 1..Len(t) : t[i] \in {"0", "1", "2", "3", "4", "5", "6", "7", "8", "9"}

C11_DateAcceptedIffLongWithDigit ==
    [][\A id \in SessionIds :
          LET s == SessionOf(sessions, id)
              t == Trimmed
          IN  Handles(id) /\ s["step"] = "ask_date" =>
                  IF Len(t) >= 5 /\ C11_HasDigit(t)
                  THEN sessions'[id] =
                          DictSet(DictSet(s, "date", t), "step", "ask_time_slot")
                  ELSE /\ sessions'[id] = s
                       /\ reply' = Reply("date_retry", <<>>)]_vars

\* "25/12", exactly five characters, is stored as the date.
C11_Witness ==
    \E id \in DOMAIN sessions :
        /\ msg = Message(id, <<"2", "5", "/", "1", "2">>)
        /\ step = "ask_date"
        /\ sessions[id]["step"] = "ask_time_slot"
        /\ sessions[id]["date"] = <<"2", "5", "/", "1", "2">>

(***************************************************************************)
(* C12 as stated: at ask_time_slot "1".."9" store the corresponding hourly *)
(* window as time_slot, advance to done and invoke each collaborator once  *)
(* in that transition.                                                     *)
(***************************************************************************)
C12_Digit == <<"1", "2", "3", "4", "5", "6", "7", "8", "9">>

\* An hour of the day on the 12-hour clock: "11:00 AM", "12:00 PM", "1:00 PM".
C12_Hour(h) ==
    LET n    == IF h > 12 THEN h - 12 ELSE h
        tens == IF n >= 10 THEN <<"1">> ELSE <<>>
        unit == IF n % 10 = 0 THEN "0" ELSE C12_Digit[n % 10]
    IN  tens \o <<unit, ":", "0", "0", " ", IF h < 12 THEN "A" ELSE "P", "M">>

\* The k-th hourly window of the day that starts at 11:00.
C12_Window(k) == C12_Hour(10 + k) \o <<" ", "-", " ">> \o C12_Hour(11 + k)

C12_Option(t) == CHOOSE k \in 1..9 : t = <<C12_Digit[k]>>

C12_SlotThenDone ==
    [][\A id \in SessionIds :
          LET s == SessionOf(sessions, id)
              t == Trimmed
          IN  Handles(id) /\ s["step"] = "ask_time_slot" /\ t \in Digits1to9 =>
                  /\ sessions'[id] =
                        DictSet(DictSet(s, "time_slot", C12_Window(C12_Option(t))),
                                "step", "done")
                  /\ Invocations(sheetCalls', id) = Invocations(sheetCalls, id) + 1
                  /\ Invocations(whatsappCalls', id) =
                        Invocations(whatsappCalls, id) + 1]_vars

(***************************************************************************)
(* C12 amended: at ask_time_slot "1".."9" store the corresponding one of   *)
(* the nine hourly windows from 11:00 AM to 8:00 PM as time_slot and       *)
(* advance to ask_event_type; the transition is answered with the event    *)
(* menu and invokes no collaborator.                                       *)
(***************************************************************************)
C12_SlotThenEventMenu ==
    /\ [](/\ DOMAIN slots = Digits1to9
          /\ \A k \in 1..9 : slots[<<C12_Digit[k]>>] = C12_Window(k))
    /\ [][\A id \in SessionIds :
             LET s == SessionOf(sessions, id)
                 t == Trimmed
             IN  Handles(id) /\ s["step"] = "ask_time_slot" /\ t \in Digits1to9 =>
                     /\ sessions'[id] =
                           DictSet(DictSet(s, "time_slot", C12_Window(C12_Option(t))),
                                   "step", "ask_event_type")
                     /\ reply' = Reply("event_menu", <<>>)
                     /\ NoNewCalls]_vars

\* "9" at ask_time_slot: the last window of the day is stored.
C12_Witness ==
    \E id \in DOMAIN sessions :
        /\ msg = Message(id, <<"9">>)
        /\ step = "ask_time_slot"
        /\ sessions[id]["step"] = "ask_event_type"
        /\ sessions[id]["time_slot"] =
              <<"7", ":", "0", "0", " ", "P", "M", " ", "-", " ", "8", ":", "0", "0", " ", "P", "M">>

(***************************************************************************)
(* C16: the first message for an unseen id is processed against a fresh    *)
(* session at ask_name with no field set; after every message, accepted or *)
(* rejected, the session is in the store under its id; no session is ever  *)
(* removed from the store.                                                 *)
(***************************************************************************)
C16_SessionCreatedAndKept ==
    [][/\ DOMAIN sessions \subseteq DOMAIN sessions'
       /\ \A id \in SessionIds :
             Handles(id) =>
                 /\ id \in DOMAIN sessions'
                 /\ id \notin DOMAIN sessions =>
                       /\ step' = "ask_name"
                       /\ FieldsOf(sessions'[id]) \subseteq {"name"}
                       /\ sessions'[id]["step"] = "ask_name" <=>
                             FieldsOf(sessions'[id]) = {}
                       /\ ~is_valid_name(Trimmed) =>
                             sessions'[id] = [x \in {"step"} |-> "ask_name"]]_vars

\* The first message of the second session was rejected, and the session
\* is stored at ask_name next to the first one.
C16_Witness ==
    \E a, b \in DOMAIN sessions :
        /\ a # b
        /\ msg = Message(b, <<"0">>)
        /\ step = "ask_name"
        /\ sessions[b] = [x \in {"step"} |-> "ask_name"]
        /\ sessions[a]["step"] = "ask_time_slot"

(***************************************************************************)
(* C18: the record passed to both collaborators in the transition into     *)
(* done is the session's stored name, event type and location and the      *)
(* stored date and time slot joined into the when-text; both collaborators *)
(* get the same record and the confirmation reply shows the same values.   *)
(***************************************************************************)
C18_Last(calls) == calls[Len(calls)]

C18_RecordIsStoredFields ==
    [][\A id \in SessionIds :
          Handles(id) /\ EntersDone(id) =>
              LET before == sessions[id]
                  after  == sessions'[id]
                  when   == after["date"] \o <<" ", "*", " ">> \o after["time_slot"]
                  record == [name       |-> after["name"],
                             event_type |-> after["event_type"],
                             location   |-> after["location"],
                             when_text  |-> when]
              IN  /\ \A f \in {"name", "event_type", "date", "time_slot"} :
                        after[f] = before[f]
                  /\ after["location"] = Trimmed
                  /\ C18_Last(sheetCalls') = [sid |-> id, args |-> record]
                  /\ C18_Last(whatsappCalls') = C18_Last(sheetCalls')
                  /\ reply' = Reply("confirmation",
                                    <<record.name, record.event_type,
                                      record.location, record.when_text>>)]_vars

\* Scenario 5 in the order of the code: name, date, slot "3", event "2",
\* location.
C18_Witness ==
    \E id \in DOMAIN sessions :
        /\ sessions[id]["step"] = "done"
        /\ step = "ask_location"
        /\ sheetCalls = whatsappCalls
        /\ sheetCalls =
              <<[sid |-> id,
                 args |-> [name       |-> <<"a", "B">>,
                           event_type |-> <<"R", "e", "c", "e", "p", "t", "i", "o", "n">>,
                           location   |-> <<"b", "a", "b", "y", " ", "s", "h", "o", "w", "e", "r">>,
                           when_text  |-> <<"2", "5", "/", "1", "2", " ", "*", " ", "1", ":", "0", "0", " ", "P", "M", " ", "-", " ", "2", ":", "0", "0", " ", "P", "M">>]]>>

(***************************************************************************)
(* The transition graph of the handler, re-ask self-loops left out: the    *)
(* steps a session at st can be moved to by some message.                  *)
(***************************************************************************)
Succ(st) ==
    {Dispatch([x \in {"step"} |-> st], Strip(t)).s["step"] : t \in Texts} \ {st}

SuccOf == [st \in Steps |-> Succ(st)]

PredOf == [st \in Steps |-> {from \in Steps : st \in SuccOf[from]}]

(***************************************************************************)
(* C17 as stated: ask_other_event is entered only from ask_event_type and  *)
(* left only to ask_location; ask_location has the two predecessors        *)
(* ask_event_type and ask_other_event; every other state, so every other   *)
(* state a session is in, has exactly one predecessor.                     *)
(***************************************************************************)
C17_EveryOtherStateHasOnePredecessor ==
    \A id \in DOMAIN sessions :
        /\ PredOf["ask_other_event"] = {"ask_event_type"}
        /\ SuccOf["ask_other_event"] = {"ask_location"}
        /\ PredOf["ask_location"] = {"ask_event_type", "ask_other_event"}
        /\ sessions[id]["step"] # "ask_location" =>
              Cardinality(PredOf[sessions[id]["step"]]) = 1

(***************************************************************************)
(* C17 amended: as stated, except that the initial state ask_name has no   *)
(* predecessor; every state other than ask_location and ask_name has       *)
(* exactly one.  Every step change of a stored session is an edge of the   *)
(* graph.                                                                  *)
(***************************************************************************)
C17_FanInOnlyAtLocation ==
    /\ [](/\ PredOf["ask_other_event"] = {"ask_event_type"}
          /\ SuccOf["ask_other_event"] = {"ask_location"}
          /\ PredOf["ask_location"] = {"ask_event_type", "ask_other_event"}
          /\ PredOf["ask_name"] = {}
          /\ \A st \in Steps \ {"ask_location", "ask_name"} :
                Cardinality(PredOf[st]) = 1)
    /\ [][\A id \in SessionIds :
             LET from == SessionOf(sessions, id)["step"]
                 to   == SessionOf(sessions', id)["step"]
             IN  from # to => to \in SuccOf[from]]_vars

\* One session has entered the detour from the event menu while the other
\* is still at the initial state.
C17_Witness ==
    \E a, b \in DOMAIN sessions :
        /\ msg = Message(a, <<"6">>)
        /\ step = "ask_event_type"
        /\ sessions[a]["step"] = "ask_other_event"
        /\ sessions[b]["step"] = "ask_name"

(***************************************************************************)
(* A client that answers every prompt of its session with a text the       *)
(* current step accepts, until the session is complete.                    *)
(***************************************************************************)
Client == "s1"

SendValid(raw) ==
    /\ SessionOf(sessions, Client)["step"] # "done"
    /\ ~Rejects(SessionOf(sessions, Client)["step"], Strip(raw))
    /\ Chat(Client, raw)

NextValid == \E raw \in Texts : SendValid(raw)

SpecValid == Init /\ [][NextValid]_vars /\ WF_vars(NextValid)

(***************************************************************************)
(* C20: a session that is sent an accepted input at every step reaches     *)
(* done, after exactly 5 messages when the event is picked from the menu   *)
(* and exactly 6 when it is typed in; no accepted input leaves the step    *)
(* unchanged.                                                              *)
(***************************************************************************)
C20_ViaDetour(s) ==
    \/ s["step"] = "ask_other_event"
    \/ /\ "event_type" \in DOMAIN s
       /\ s["event_type"] \notin {mapping[k] : k \in DOMAIN mapping}

\* The number of accepted messages that lead to a session.
C20_Rank(s) ==
    LET st == s["step"]
    IN  IF st = "ask_name" THEN 0
        ELSE IF st = "ask_date" THEN 1
        ELSE IF st = "ask_time_slot" THEN 2
        ELSE IF st = "ask_event_type" THEN 3
        ELSE IF st = "ask_other_event" THEN 4
        ELSE IF st = "ask_location" THEN (IF C20_ViaDetour(s) THEN 5 ELSE 4)
        ELSE (IF C20_ViaDetour(s) THEN 6 ELSE 5)

C20_ValidInputsReachDone ==
    /\ [](handled = C20_Rank(SessionOf(sessions, Client)))
    /\ [](SessionOf(sessions, Client)["step"] = "done" =>
             handled = IF C20_ViaDetour(sessions[Client]) THEN 6 ELSE 5)
    /\ [][SessionOf(sessions', Client)["step"] # SessionOf(sessions, Client)["step"]]_vars
    /\ <>(SessionOf(sessions, Client)["step"] = "done")

\* The session is complete after six accepted messages, the event typed in.
C20_Witness ==
    /\ Client \in DOMAIN sessions
    /\ sessions[Client]["step"] = "done"
    /\ sessions[Client]["event_type"] = <<"A", "b">>
    /\ handled = 6

(***************************************************************************)
(* The validation helpers on their own: each is applied to every text over *)
(* a letter of either case, a digit, a blank and a punctuation mark, up to *)
(* MaxLen characters.                                                      *)
(***************************************************************************)
MaxLen == 5

ProbeChars == {"a", "Z", "7", " ", "-"}

ProbeTexts == UNION {[1..n -> ProbeChars] : n \in 0..MaxLen}

InitProbe ==
    /\ ChatInit
    /\ NetIdle
    /\ RaceIdle
    /\ probe \in ProbeTexts
    /\ verdict = NoVerdict

Validate ==
    /\ ~verdict.returned
    /\ verdict' = [returned |-> TRUE,
                   name     |-> is_valid_name(probe),
                   location |-> is_valid_location(probe),
                   date     |-> is_valid_date_text(probe)]
    /\ UNCHANGED <<probe, chatVars, netVars, raceVars>>

SpecProbe == InitProbe /\ [][Validate]_vars

(***************************************************************************)
(* C15: is_valid_name and is_valid_location each return true iff the       *)
(* trimmed text has at least 2 characters and contains a letter, and each  *)
(* returns a boolean for every text.                                       *)
(***************************************************************************)
\* t without its leading and trailing blanks.
C15_Trimmed(t) ==
    LET solid == {i \in 1..Len(t) : t[i] # " "}
    IN  IF solid = {} THEN <<>>
        ELSE SubSeq(t, CHOOSE i \in solid : \A j \in solid : i <= j,
                       CHOOSE i \in solid : \A j \in solid : i >= j)

C15_Accepts(t) ==
    /\ Len(C15_Trimmed(t)) >= 2
    /\ \E i \in 1..Len(C15_Trimmed(t)) : C15_Trimmed(t)[i] \in {"a", "Z"}

C15_NameAndLocationRule ==
    verdict.returned =>
        /\ verdict.name \in BOOLEAN
        /\ verdict.location \in BOOLEAN
        /\ verdict.name = C15_Accepts(probe)
        /\ verdict.location = C15_Accepts(probe)

\* A letter between blanks is rejected: one character is left after trimming.
C15_Witness ==
    /\ probe = <<" ", " ", "a", " ", " ">>
    /\ verdict.returned
    /\ ~verdict.name
    /\ ~verdict.location

(***************************************************************************)
(* The collaborators.  Each HTTP request they make ends in one of three    *)
(* ways: a success status, a non-success status, or an exception of the    *)
(* requests library (unreachable host, timeout).                           *)
(***************************************************************************)
Outcomes == {"200", "500", "raises"}

FirstIndex(t, ch) ==
    CHOOSE i \in 1..Len(t) : t[i] = ch /\ \A j \in 1..(i - 1) : t[j] # ch

\* str.split(sep)
RECURSIVE Split(_, _)
Split(t, sep) ==
    IF sep \notin Range(t) THEN <<t>>
    ELSE LET i == FirstIndex(t, sep)
         IN  <<SubSeq(t, 1, i - 1)>> \o Split(SubSeq(t, i + 1, Len(t)), sep)

\* The body of the loop of parse_whatsapp_recipients, over the parts left.
RECURSIVE ParseParts(_)
ParseParts(parts) ==
    IF parts = <<>> THEN <<>>
    ELSE LET part == Strip(Head(parts))
         IN  IF part = <<>> \/ ":" \notin Range(part)
             THEN ParseParts(Tail(parts))
             ELSE LET i     == FirstIndex(part, ":")
                      phone == Strip(SubSeq(part, 1, i - 1))
                      key   == Strip(SubSeq(part, i + 1, Len(part)))
                  IN  IF phone # <<>> /\ key # <<>>
                      THEN <<[phone |-> phone, apikey |-> key]>>
                              \o ParseParts(Tail(parts))
                      ELSE ParseParts(Tail(parts))

parse_whatsapp_recipients(raw) == ParseParts(Split(raw, ","))

\* What a collaborator did: the requests it made, and whether an exception
\* left it.
Done(reqs, raised) == [requests |-> reqs, raised |-> raised]

log_booking_to_sheet(webhook, args, outcome) ==
    IF webhook = <<>> THEN Done(<<>>, FALSE)
    ELSE LET payload == [name |-> args.name, event_type |-> args.event_type,
                         city |-> args.location, slot |-> args.when_text]
         IN  Done(<<[method |-> "POST", to |-> webhook, data |-> payload,
                     outcome |-> outcome]>>, FALSE)

\* Fault variant of send_whatsapp_notifications: one try around the loop,
\* so the first exception ends it.
send_whatsapp_notifications_OneTry(raw, args, outcomes) ==
    LET recipients == parse_whatsapp_recipients(raw)
        message    == <<args.name, args.event_type, args.location, args.when_text>>
        raising    == {i \in 1..Len(recipients) : outcomes[i] = "raises"}
        last       == IF raising = {} THEN Len(recipients)
                      ELSE CHOOSE i \in raising : \A j \in raising : i <= j
    IN  Done([i \in 1..last |->
                 [method |-> "GET", to |-> recipients[i].phone,
                  data |-> [apikey |-> recipients[i].apikey, text |-> message],
                  outcome |-> outcomes[i]]], FALSE)

send_whatsapp_notifications(raw, args, outcomes) ==
    LET recipients == parse_whatsapp_recipients(raw)
        message    == <<args.name, args.event_type, args.location, args.when_text>>
    IN  IF recipients = <<>> THEN Done(<<>>, FALSE)
        ELSE Done([i \in 1..Len(recipients) |->
                      [method |-> "GET", to |-> recipients[i].phone,
                       data |-> [apikey |-> recipients[i].apikey, text |-> message],
                       outcome |-> outcomes[i]]], FALSE)

(***************************************************************************)
(* chat() with the collaborators carried out.  An exception that leaves a  *)
(* collaborator leaves chat() at that line: what follows the line is not   *)
(* executed, while the assignments made to the session dict before it      *)
(* stay.                                                                   *)
(***************************************************************************)
Webhooks == {<<>>, <<"h", "o", "o", "k">>}

RecipientSettings ==
    { <<>>,
      <<"+", "1", ":", "k">>,
      <<"+", "1", ":", "k", ",", " ", "+", "2", " ", ":", " ", "j", " ">>,
      <<"x", ",", "+", "1", ":", "k", ",", ":", "z", ",", "+", "2", ":", "j", ",">> }

NetTexts ==
    { <<" ", "a", "B", " ">>, <<"2", "5", "/", "1", "2">>, <<"1">>, <<"0">> }

InitNet ==
    /\ ChatInit
    /\ ProbeIdle
    /\ RaceIdle
    /\ GOOGLE_SHEET_WEBHOOK \in Webhooks
    /\ WHATSAPP_RECIPIENTS_RAW \in RecipientSettings
    /\ requests = <<>>
    /\ error = FALSE

ChatNet(id, raw, sheetOutcome, whatsappOutcomes) ==
    /\ handled < MaxMsgs
    /\ LET s     == DictGet(sessions, id, NewSession)
           text  == Strip(raw)
           out   == Dispatch(s, text)
           sheet == IF out.sheet = <<>> THEN Done(<<>>, FALSE)
                    ELSE log_booking_to_sheet(GOOGLE_SHEET_WEBHOOK, out.sheet[1],
                                              sheetOutcome)
           reached  == ~sheet.raised
           whatsapp == IF out.whatsapp = <<>> \/ ~reached THEN Done(<<>>, FALSE)
                       ELSE send_whatsapp_notifications(WHATSAPP_RECIPIENTS_RAW,
                                                        out.whatsapp[1],
                                                        whatsappOutcomes)
           raised   == sheet.raised \/ whatsapp.raised
       IN  /\ msg' = Message(id, raw)
           /\ step' = s["step"]
           /\ sheetCalls' = sheetCalls \o Tag(id, out.sheet)
           /\ whatsappCalls' =
                 IF reached THEN whatsappCalls \o Tag(id, out.whatsapp)
                 ELSE whatsappCalls
           /\ requests' = requests \o sheet.requests \o whatsapp.requests
           /\ error' = raised
           /\ sessions' = IF raised /\ id \notin DOMAIN sessions THEN sessions
                          ELSE DictSet(sessions, id, out.s)
           /\ reply' = IF raised THEN Reply("internal_server_error", <<>>)
                       ELSE out.reply
    /\ handled' = handled + 1
    /\ UNCHANGED <<probeVars, raceVars, GOOGLE_SHEET_WEBHOOK, WHATSAPP_RECIPIENTS_RAW>>

\* One message, with an end for the request to the sheet and one for the
\* request to each recipient.
NextNet ==
    \E raw \in NetTexts, so \in Outcomes :
        \E wo \in [DOMAIN parse_whatsapp_recipients(WHATSAPP_RECIPIENTS_RAW) -> Outcomes] :
            ChatNet(Client, raw, so, wo)

SpecNet == InitNet /\ [][NextNet]_vars

(***************************************************************************)
(* C14: in the transition into done, however each request ends, the        *)
(* session is at done, the reply is the booking confirmation and no error  *)
(* reaches the caller; the notifier is called whatever became of the lead  *)
(* sink's request, and a request is made for every configured recipient    *)
(* whatever became of the requests for the others.                         *)
(***************************************************************************)
C14_Added == SubSeq(requests', Len(requests) + 1, Len(requests'))

C14_FailuresStayInside ==
    [][\A id \in SessionIds :
          LET s == SessionOf(sessions, id)
          IN  Handles(id) /\ s["step"] = "ask_location" /\ is_valid_location(Trimmed) =>
                  LET posts == SelectSeq(C14_Added, LAMBDA r : r.method = "POST")
                      gets  == SelectSeq(C14_Added, LAMBDA r : r.method = "GET")
                      recipients == parse_whatsapp_recipients(WHATSAPP_RECIPIENTS_RAW)
                  IN  /\ sessions'[id]["step"] = "done"
                      /\ reply'.tpl = "confirmation"
                      /\ ~error'
                      /\ Len(sheetCalls') = Len(sheetCalls) + 1
                      /\ Len(whatsappCalls') = Len(whatsappCalls) + 1
                      /\ Len(posts) = IF GOOGLE_SHEET_WEBHOOK = <<>> THEN 0 ELSE 1
                      /\ Len(gets) = Len(recipients)
                      /\ \A i \in 1..Len(gets) : gets[i].to = recipients[i].phone
                      /\ C14_Added = posts \o gets]_vars

\* The request to the sheet and the request for the first recipient raised;
\* the second recipient was still notified and the booking confirmed.
C14_Witness ==
    /\ Len(requests) = 3
    /\ requests[1].method = "POST" /\ requests[1].outcome = "raises"
    /\ requests[2].to = <<"+", "1">> /\ requests[2].outcome = "raises"
    /\ requests[3].to = <<"+", "2">> /\ requests[3].outcome = "200"
    /\ requests[3].data.apikey = <<"j">>
    /\ sessions[Client]["step"] = "done"
    /\ reply.tpl = "confirmation"
    /\ ~error

(***************************************************************************)
(* chat() on worker threads.  Each worker runs the statements of chat() in *)
(* order; between two statements of one worker the other may run.  A       *)
(* statement that reads or writes a session dict acts on the object the    *)
(* worker's local s refers to, which is the stored object itself when the  *)
(* id was present at line 151.                                             *)
(***************************************************************************)
MaxRequests == 7

MaxPairRequests == 5

MaxOthers == 1

\* A text that is a valid name, date and location, and one that is a valid
\* choice of both menus; each is rejected where the other is accepted.
RaceTexts ==
    { <<" ", "1", "2", " ", "M", "a", "y", " ">>, <<"1">> }

\* Fault variant of Alloc: the default of sessions.get is one object made
\* once and handed to every unseen id.
Alloc_SharedDefault(hp) ==
    IF hp = <<>> THEN [heap |-> <<NewSession>>, ref |-> 1]
    ELSE [heap |-> hp, ref |-> 1]

\* The dict literal {"step": "ask_name"} of line 151: a new object at every
\* evaluation.
Alloc(hp) == [heap |-> Append(hp, NewSession), ref |-> Len(hp) + 1]

\* s = sessions.get(msg.session_id, {"step": "ask_name"})
Get(h, id, raw) ==
    /\ frame[h].pc = "idle"
    /\ \A g \in Handlers : g < h => frame[g].pc # "idle"
    /\ begun' = [begun EXCEPT ![id] = begun[id] + 1]
    /\ LET fresh == Alloc(heap)
           seen  == id \in DOMAIN stored
       IN  /\ heap' = IF seen THEN heap ELSE fresh.heap
           /\ frame' = [frame EXCEPT ![h] =
                           [IdleFrame EXCEPT !.pc = "read", !.session_id = id,
                                             !.text = raw,
                                             !.s = IF seen THEN stored[id] ELSE fresh.ref]]
    /\ UNCHANGED <<chatVars, probeVars, netVars, stored>>

\* step = s["step"]; text = msg.text.strip()
ReadStep(h) ==
    /\ frame[h].pc = "read"
    /\ frame' = [frame EXCEPT ![h].step = heap[frame[h].s]["step"],
                              ![h].text = Strip(frame[h].text),
                              ![h].pc = "branch"]
    /\ UNCHANGED <<chatVars, probeVars, netVars, heap, stored, begun>>

\* The branch chosen by the local step: the validation of text and, when
\* it passes, the assignment to the field of the step.
Branch(h) ==
    /\ frame[h].pc = "branch"
    /\ LET f   == frame[h]
           cur == heap[f.s]
           out == Dispatch(DictSet(cur, "step", f.step), f.text)
       IN  /\ heap' = [heap EXCEPT ![f.s] = DictSet(out.s, "step", cur["step"])]
           /\ frame' = [frame EXCEPT ![h].next = out.s["step"],
                                     ![h].sheet = out.sheet # <<>>,
                                     ![h].whatsapp = out.whatsapp # <<>>,
                                     ![h].reply = out.reply,
                                     ![h].pc = IF out.s["step"] # f.step
                                               THEN "write_step" ELSE "put"]
    /\ UNCHANGED <<chatVars, probeVars, netVars, stored, begun>>

\* s["step"] = <the next step>
WriteStep(h) ==
    /\ frame[h].pc = "write_step"
    /\ LET f == frame[h]
       IN  /\ heap' = [heap EXCEPT ![f.s] = DictSet(heap[f.s], "step", f.next)]
           /\ frame' = [frame EXCEPT ![h].pc = IF f.sheet \/ f.whatsapp
                                               THEN "notify" ELSE "put"]
    /\ UNCHANGED <<chatVars, probeVars, netVars, stored, begun>>

\* Lines 295-315: the record is read back from s, both collaborators are
\* called with it and the confirmation is built from it.
Notify(h) ==
    /\ frame[h].pc = "notify"
    /\ LET f    == frame[h]
           s    == heap[f.s]
           when_text == WhenText(DictGet(s, "date", <<>>), DictGet(s, "time_slot", <<>>))
           args == CallArgs(DictGet(s, "name", <<>>), DictGet(s, "event_type", <<>>),
                            DictGet(s, "location", <<>>), when_text)
           call == IF f.sheet THEN <<args>> ELSE NoCalls
           alert == IF f.whatsapp THEN <<args>> ELSE NoCalls
       IN  /\ sheetCalls' = sheetCalls \o Tag(f.session_id, call)
           /\ whatsappCalls' = whatsappCalls \o Tag(f.session_id, alert)
           /\ frame' = [frame EXCEPT
                           ![h].reply = Reply("confirmation",
                                              <<args.name, args.event_type,
                                                args.location, args.when_text>>),
                           ![h].pc = "put"]
    /\ UNCHANGED <<sessions, msg, step, reply, handled, probeVars, netVars, heap, stored,
                   begun>>

\* Fault variant of Put: the store keeps the object it already has for the
\* id (dict.setdefault).
Put_KeepsFirst(h) ==
    /\ frame[h].pc = "put"
    /\ LET f == frame[h]
       IN  /\ stored' = IF f.session_id \in DOMAIN stored THEN stored
                        ELSE DictSet(stored, f.session_id, f.s)
    /\ frame' = [frame EXCEPT ![h] = IdleFrame]
    /\ UNCHANGED <<chatVars, probeVars, netVars, heap, begun>>

\* sessions[msg.session_id] = s; return {"reply": reply}: the worker's reply
\* goes to its client and the worker is free again.
Put(h) ==
    /\ frame[h].pc = "put"
    /\ LET f == frame[h]
       IN  /\ stored' = DictSet(stored, f.session_id, f.s)
    /\ frame' = [frame EXCEPT ![h] = IdleFrame]
    /\ UNCHANGED <<chatVars, probeVars, netVars, heap, begun>>

\* One client, whose messages may overlap (a double submit, a retry).
NextRace ==
    \E h \in Handlers :
        \/ \E raw \in RaceTexts : begun[Client] < MaxRequests /\ Get(h, Client, raw)
        \/ ReadStep(h)
        \/ Branch(h)
        \/ WriteStep(h)
        \/ Notify(h)
        \/ Put(h)

SpecRace == Init /\ [][NextRace]_vars

\* Two clients at once: s1 through its conversation, the other beside it.
Quota(id) == IF id = Client THEN MaxPairRequests ELSE MaxOthers

NextPair ==
    \E h \in Handlers :
        \/ \E id \in SessionIds, raw \in RaceTexts : begun[id] < Quota(id) /\ Get(h, id, raw)
        \/ ReadStep(h)
        \/ Branch(h)
        \/ WriteStep(h)
        \/ Notify(h)
        \/ Put(h)

SpecPair == Init /\ [][NextPair]_vars

(***************************************************************************)
(* C13: nothing synchronizes the handlers on the session store.  A worker  *)
(* in chat() can always run its next statement, whatever the other is      *)
(* doing; a worker that read ask_location and has a valid location calls   *)
(* both collaborators, whatever the step of the session has become since;  *)
(* and the assignment of line 324 stores the worker's own dict, whatever   *)
(* the store held for the id.  So two handlers of one session can both     *)
(* notify, and of two handlers of an unseen id the later put wins.         *)
(***************************************************************************)
C13_NextStatement(h) ==
    ReadStep(h) \/ Branch(h) \/ WriteStep(h) \/ Notify(h) \/ Put(h)

C13_NoSynchronization ==
    /\ [](\A h \in Handlers : frame[h].pc # "idle" => ENABLED C13_NextStatement(h))
    /\ [][\A h \in Handlers :
             LET f == frame[h]
             IN  /\ f.pc = "branch" /\ frame'[h].pc # "branch"
                    /\ f.step = "ask_location" /\ is_valid_location(f.text)
                       => frame'[h].sheet /\ frame'[h].whatsapp
                 /\ f.pc = "notify" /\ frame'[h].pc = "put"
                       => /\ Invocations(sheetCalls', f.session_id)
                               = Invocations(sheetCalls, f.session_id) + 1
                          /\ Invocations(whatsappCalls', f.session_id)
                               = Invocations(whatsappCalls, f.session_id) + 1
                 /\ f.pc = "put" /\ frame'[h].pc = "idle"
                       => stored'[f.session_id] = f.s]_vars

\* Two handlers of the unseen session each made a dict and took the name;
\* the store kept the second one's, and the first one's is lost.  Later two
\* handlers of the session both read ask_location, took a valid location
\* and called the collaborators: two notifications for one conversation.
C13_Witness ==
    /\ Len(heap) = 2
    /\ Client \in DOMAIN stored /\ stored[Client] = 2
    /\ heap[1]["step"] = "ask_date" /\ "name" \in DOMAIN heap[1]
    /\ \A h \in Handlers :
          /\ frame[h].pc = "put"
          /\ frame[h].session_id = Client
          /\ frame[h].step = "ask_location"
          /\ frame[h].reply.tpl = "confirmation"
    /\ Invocations(sheetCalls, Client) = 2
    /\ Invocations(whatsappCalls, Client) = 2
    /\ heap[2]["step"] = "done"

(***************************************************************************)
(* C19: a statement run for session id A leaves alone what is stored, or   *)
(* being built, under any other id B: B stays stored or absent as it was,  *)
(* with the same dict object and the same content; no dict object is       *)
(* shared between two ids, also when A is unseen and gets its dict from    *)
(* the default of line 151; all of this with the two workers interleaved.  *)
(***************************************************************************)
C19_Runs(h) == frame'[h] # frame[h]

C19_IdOf(h) ==
    IF frame[h].pc = "idle" THEN frame'[h].session_id ELSE frame[h].session_id

C19_OtherSessionsUntouched ==
    /\ [](\A a, b \in DOMAIN stored : a # b => stored[a] # stored[b])
    /\ [](\A h \in Handlers : \A b \in DOMAIN stored :
             frame[h].pc # "idle" /\ frame[h].session_id # b => frame[h].s # stored[b])
    /\ [](\A g, h \in Handlers :
             /\ frame[g].pc # "idle" /\ frame[h].pc # "idle"
             /\ frame[g].session_id # frame[h].session_id
             => frame[g].s # frame[h].s)
    /\ [][\A h \in Handlers : C19_Runs(h) =>
             /\ \A b \in SessionIds \ {C19_IdOf(h)} :
                   IF b \in DOMAIN stored
                   THEN /\ b \in DOMAIN stored'
                        /\ stored'[b] = stored[b]
                        /\ heap'[stored[b]] = heap[stored[b]]
                   ELSE b \notin DOMAIN stored'
             /\ \A g \in Handlers :
                   frame[g].pc # "idle" /\ frame[g].session_id # C19_IdOf(h)
                   => /\ frame'[g] = frame[g]
                      /\ heap'[frame[g].s] = heap[frame[g].s]]_vars

\* A handler of the unseen s2 has taken the name into its own new dict
\* while a handler of the stored s1 has taken the date and is about to
\* write the step: the two dicts are different objects.
C19_Witness ==
    /\ "s2" \notin DOMAIN stored
    /\ "s1" \in DOMAIN stored
    /\ {"name", "date"} \subseteq DOMAIN heap[stored["s1"]]
    /\ heap[stored["s1"]]["step"] = "ask_date"
    /\ \E g, h \in Handlers :
          /\ frame[g].session_id = "s2" /\ frame[g].pc = "write_step"
          /\ DOMAIN heap[frame[g].s] = {"step", "name"}
          /\ frame[h].session_id = "s1" /\ frame[h].pc = "write_step"
          /\ frame[h].s = stored["s1"]
          /\ frame[g].s # frame[h].s

====
